---- MODULE Spec2Model ----
(***************************************************************************)
(* A model of political-party-kit: the transcript chunker, the metadata    *)
(* record, the semicolon-list parser, the document writer, the dashboard   *)
(* renderer and the sequential generate pipeline.                          *)
(*                                                                         *)
(* Strings are sequences of text atoms.  User data holds one character per *)
(* atom ("a", " ", "\n"); a fixed literal of the source that is only ever  *)
(* copied to an output is a single atom ("Titel: ").  None is modelled for *)
(* an Optional[str] as the empty tuple and a present value s as <<s>>.     *)
(***************************************************************************)
EXTENDS Integers, Sequences, FiniteSets, TLC

VARIABLES
    call,       \* the arguments of the pure function under test
    pc,         \* where the call under test stands: "call", ..., "done"
    ret,        \* its return value, once it has returned
    \* the state of a run of MeetingMinutesGenerator.generate
    heap,               \* the MeetingMetadata objects: heap[o] is the record of o
    meta,               \* the object generate's local meta names
    transcript,         \* the trimmed text the speech-to-text service returned
    chunks,             \* chunk_text(transcript, 7000)
    partial_summaries,  \* the summaries of the chunks processed so far
    final_minutes,      \* the consolidated text
    files,              \* what the run has written to disk
    calls,              \* what the client has seen: requests, responses, failures
    error               \* the exception that ended the run, if any

genVars == <<heap, meta, transcript, chunks, partial_summaries, final_minutes, files,
             calls, error>>
vars == <<call, pc, ret, genVars>>

\* no run of generate is under way
NoFiles == [transcript |-> <<>>, partials |-> <<>>, docx |-> <<>>]

GenIdle ==
    /\ heap = <<>>
    /\ meta = <<>>
    /\ transcript = <<>>
    /\ chunks = <<>>
    /\ partial_summaries = <<>>
    /\ final_minutes = <<>>
    /\ files = NoFiles
    /\ calls = <<>>
    /\ error = <<>>

----------------------------------------------------------------------------
(* Bounds of the model *)

MaxTextLen == 6        \* longest transcript given to chunk_text, in characters
MaxTarget == 3         \* largest character budget given to chunk_text
MaxParseLen == 6       \* longest value given to parse_semicolon_list
MaxModules == 2        \* longest module list given to the dashboard
MaxDocLines == 2       \* most lines of a body text given to build_docx
MaxChunks == 2         \* most chunks of a transcript in a run of generate
MaxRounds == 2         \* most rounds of prompts in a run of collect_meeting_metadata

----------------------------------------------------------------------------
(* Python's str helpers *)

\* the characters str.strip() removes that the model's alphabets contain
Whitespace == {" ", "\t", "\n", "\r"}

SetMin(S) == CHOOSE x \in S : \A y \in S : x <= y

\* str.split(sep) for a one-character sep, from position start on
RECURSIVE SplitFrom(_, _, _)
SplitFrom(s, sep, start) ==
    LET nxt == {i \in start..Len(s) : s[i] = sep}
    IN  IF nxt = {}
        THEN <<SubSeq(s, start, Len(s))>>
        ELSE LET p == SetMin(nxt)
             IN  <<SubSeq(s, start, p - 1)>> \o SplitFrom(s, sep, p + 1)

Split(s, sep) == SplitFrom(s, sep, 1)

\* str.lstrip(chars)
LStripChars(s, chars) ==
    IF \A i \in 1..Len(s) : s[i] \in chars
    THEN <<>>
    ELSE LET first == CHOOSE i \in 1..Len(s) :
                          /\ s[i] \notin chars
                          /\ \A j \in 1..(i - 1) : s[j] \in chars
         IN  SubSeq(s, first, Len(s))

\* str.rstrip(chars)
RStripChars(s, chars) ==
    IF \A i \in 1..Len(s) : s[i] \in chars
    THEN <<>>
    ELSE LET last == CHOOSE i \in 1..Len(s) :
                         /\ s[i] \notin chars
                         /\ \A j \in (i + 1)..Len(s) : s[j] \in chars
         IN  SubSeq(s, 1, last)

\* str.strip()
Strip(s) == RStripChars(LStripChars(s, Whitespace), Whitespace)

\* [f(x) for x in xs if keep(x)] with f = strip and keep = "strip is non-empty"
RECURSIVE StrippedNonEmpty(_)
StrippedNonEmpty(xs) ==
    IF xs = <<>>
    THEN <<>>
    ELSE (IF Strip(Head(xs)) # <<>> THEN <<Strip(Head(xs))>> ELSE <<>>)
             \o StrippedNonEmpty(Tail(xs))

\* sep.join(xs)
RECURSIVE Join(_, _)
Join(xs, sep) ==
    IF xs = <<>> THEN <<>>
    ELSE IF Len(xs) = 1 THEN xs[1]
    ELSE xs[1] \o sep \o Join(Tail(xs), sep)

\* all sequences over S of length at most n
SeqsUpTo(S, n) == UNION {[1..k -> S] : k \in 0..n}

----------------------------------------------------------------------------
(* What the claims mean by "the trimmed non-empty items of s", stated by     *)
(* positions instead of by the scan the code performs                        *)

\* the positions of the separators of s, with both ends of s
Boundaries(s, sep) == {0, Len(s) + 1} \cup {i \in 1..Len(s) : s[i] = sep}

\* the item of s that starts after boundary p
ItemAfter(s, sep, p) ==
    SubSeq(s, p + 1, SetMin({b \in Boundaries(s, sep) : b > p}) - 1)

\* y is x without its leading and trailing whitespace
IsTrimOf(y, x) ==
    /\ y # <<>> => (y[1] \notin Whitespace /\ y[Len(y)] \notin Whitespace)
    /\ \E i \in 1..(Len(x) + 1) : \E j \in 0..Len(x) :
           /\ y = SubSeq(x, i, j)
           /\ \A k \in 1..(i - 1) : x[k] \in Whitespace
           /\ \A k \in (j + 1)..Len(x) : x[k] \in Whitespace

\* out lists, in order, the trimmed forms of the items of s that are not blank
IsTrimmedItems(out, s, sep) ==
    LET starts == Boundaries(s, sep) \ {Len(s) + 1}
        blank(p) == \A k \in 1..Len(ItemAfter(s, sep, p)) :
                        ItemAfter(s, sep, p)[k] \in Whitespace
        kept == {p \in starts : ~blank(p)}
    IN  /\ Len(out) = Cardinality(kept)
        /\ \A p \in kept :
               IsTrimOf(out[Cardinality({q \in kept : q <= p})], ItemAfter(s, sep, p))

----------------------------------------------------------------------------
(* chunk_text *)

\* line 181: the trimmed non-blank lines of the text
Paragraphs(text) == StrippedNonEmpty(Split(text, "\n"))

\* line 185
Candidate(buffer, paragraph) ==
    IF buffer # <<>> THEN Strip(buffer \o <<"\n">> \o paragraph) ELSE paragraph

\* a comparison that closes a chunk one character early
FitsStrict(candidate, target_chars) == Len(candidate) < target_chars

\* line 186
Fits(candidate, target_chars) == Len(candidate) <= target_chars

\* a flush that forgets the buffer
FlushDropped(done, buffer) == done

\* lines 189-190 and 192-193: if buffer: chunks.append(buffer)
Flush(done, buffer) ==
    IF buffer # <<>> THEN Append(done, buffer) ELSE done

\* lines 182-194: the loop from paragraph i on, and the final flush
RECURSIVE ChunkLoop(_, _, _, _, _)
ChunkLoop(paragraphs, i, done, buffer, target_chars) ==
    IF i > Len(paragraphs)
    THEN Flush(done, buffer)
    ELSE LET paragraph == paragraphs[i]
             candidate == Candidate(buffer, paragraph)
         IN  IF Fits(candidate, target_chars)
             THEN ChunkLoop(paragraphs, i + 1, done, candidate, target_chars)
             ELSE ChunkLoop(paragraphs, i + 1, Flush(done, buffer),
                            paragraph, target_chars)

\* a shortcut that returns a text within the budget as its only chunk
chunk_text_shortcut(text, target_chars) ==
    IF Len(text) <= target_chars
    THEN <<text>>
    ELSE ChunkLoop(Paragraphs(text), 1, <<>>, <<>>, target_chars)

\* lines 176-194
chunk_text(text, target_chars) ==
    IF text = <<>>
    THEN <<>>
    ELSE ChunkLoop(Paragraphs(text), 1, <<>>, <<>>, target_chars)

ChunkAlphabet == {"a", "b", " ", "\n"}

ChunkInit ==
    /\ call \in [text : SeqsUpTo(ChunkAlphabet, MaxTextLen),
                 target_chars : 0..MaxTarget]
    /\ pc = "call"
    /\ ret = <<>>
    /\ GenIdle

ChunkText ==
    /\ pc = "call"
    /\ pc' = "done"
    /\ ret' = chunk_text(call.text, call.target_chars)
    /\ UNCHANGED <<call, genVars>>

SpecChunk == ChunkInit /\ [][ChunkText]_vars

\* C1: for every text and every positive budget, no chunk returned by
\* chunk_text is longer than target_chars characters.
C1_NoChunkOverBudget ==
    (pc = "done" /\ call.target_chars > 0)
        => \A i \in 1..Len(ret) : Len(ret[i]) <= call.target_chars

\* The lines of all chunks, in chunk order
RECURSIVE ChunkLines(_)
ChunkLines(cs) ==
    IF cs = <<>> THEN <<>>
    ELSE Split(Head(cs), "\n") \o ChunkLines(Tail(cs))

\* C2: splitting each chunk on newlines and concatenating the line sequences
\* in chunk order gives exactly the trimmed non-blank lines of the input.
C2_ChunksReproduceParagraphs ==
    pc = "done" => IsTrimmedItems(ChunkLines(ret), call.text, "\n")

C2_Witness ==
    /\ pc = "done"
    /\ Len(ret) >= 2
    /\ \E i \in 1..Len(ret) : Len(Split(ret[i], "\n")) >= 2
    /\ \E k \in 1..Len(call.text) : call.text[k] = " "

\* C3: for consecutive chunks c[i], c[i+1], appending the first paragraph of
\* c[i+1] to c[i] with the newline separator would exceed target_chars.
C3_ChunksMaximal ==
    pc = "done" =>
        \A i \in 1..(Len(ret) - 1) :
            Len(ret[i]) + 1 + Len(Split(ret[i + 1], "\n")[1]) > call.target_chars

C3_Witness ==
    /\ pc = "done"
    /\ Len(ret) >= 2
    /\ \E i \in 1..Len(ret) : Len(Split(ret[i], "\n")) >= 2

\* C12: chunk_text returns an empty sequence of chunks for the empty text,
\* for every budget.
C12_EmptyTextNoChunks ==
    (pc = "done" /\ call.text = <<>>) => ret = <<>>

C12_Witness ==
    /\ pc = "done"
    /\ call.text = <<>>
    /\ call.target_chars = MaxTarget
    /\ ret = <<>>

----------------------------------------------------------------------------
(* parse_semicolon_list *)

\* a parser that keeps the items as they are typed
parse_semicolon_list_untrimmed(value) ==
    IF value = <<>>
    THEN <<>>
    ELSE SelectSeq(Split(value, ";"), LAMBDA item : Strip(item) # <<>>)

parse_semicolon_list(value) ==
    IF value = <<>>
    THEN <<>>
    ELSE StrippedNonEmpty(Split(value, ";"))

ParseAlphabet == {"A", "B", " ", ";"}

\* the example of the specification: "A;B ;;C"
ParseExample == <<"A", ";", "B", " ", ";", ";", "C">>

ParseInit ==
    /\ call \in [value : SeqsUpTo(ParseAlphabet, MaxParseLen) \cup {ParseExample}]
    /\ pc = "call"
    /\ ret = <<>>
    /\ GenIdle

ParseSemicolonList ==
    /\ pc = "call"
    /\ pc' = "done"
    /\ ret' = parse_semicolon_list(call.value)
    /\ UNCHANGED <<call, genVars>>

SpecParse == ParseInit /\ [][ParseSemicolonList]_vars

\* C9: parse_semicolon_list returns the semicolon-separated items of its
\* input, trimmed, without the empty and whitespace-only ones, in input
\* order; "A;B ;;C" gives A, B, C; empty or whitespace-only input gives the
\* empty list; every returned element is a trimmed non-empty string.
C9_ParseSemicolonList ==
    pc = "done" =>
        /\ IsTrimmedItems(ret, call.value, ";")
        /\ call.value = ParseExample => ret = <<<<"A">>, <<"B">>, <<"C">>>>
        /\ (\A k \in 1..Len(call.value) : call.value[k] \in Whitespace) => ret = <<>>
        /\ \A n \in 1..Len(ret) :
               /\ ret[n] # <<>>
               /\ ret[n][1] \notin Whitespace
               /\ ret[n][Len(ret[n])] \notin Whitespace
               /\ \A k \in 1..Len(ret[n]) : ret[n][k] # ";"

C9_Witness ==
    /\ pc = "done"
    /\ Len(ret) >= 2
    /\ \E p \in 1..Len(call.value) : call.value[p] = " "
    /\ \E p \in 1..(Len(call.value) - 1) :
           call.value[p] = ";" /\ call.value[p + 1] = ";"

----------------------------------------------------------------------------
(* MeetingMetadata *)

None == <<>>
Some(s) == <<s>>

\* Python's truth value of an Optional[str]: None and "" are false
TruthyOpt(x) == x # None /\ x[1] # <<>>

\* x or None, for an Optional[str]
OrNone(x) == IF TruthyOpt(x) THEN x ELSE None

\* dict.get(key, default)
Get(payload, key, default) ==
    IF key \in DOMAIN payload THEN payload[key] ELSE default

DefaultTitel == <<"Sitzungsprotokoll">>

\* lines 109-125
to_dict(self) ==
    [titel |-> self.titel,
     datum |-> self.datum,
     ort |-> self.ort,
     startzeit |-> self.startzeit,
     endzeit |-> self.endzeit,
     moderation |-> self.moderation,
     protokoll |-> self.protokoll,
     teilnehmer |-> self.teilnehmer,
     gaeste |-> self.gaeste,
     agenda |-> self.agenda,
     ziele |-> self.ziele,
     hinweise |-> self.hinweise]

\* a from_dict that treats the title like the optional fields
from_dict_titel_or_default(payload) ==
    [titel |-> IF Get(payload, "titel", DefaultTitel) # <<>>
               THEN Get(payload, "titel", DefaultTitel) ELSE DefaultTitel,
     datum |-> OrNone(Get(payload, "datum", None)),
     ort |-> OrNone(Get(payload, "ort", None)),
     startzeit |-> OrNone(Get(payload, "startzeit", None)),
     endzeit |-> OrNone(Get(payload, "endzeit", None)),
     moderation |-> OrNone(Get(payload, "moderation", None)),
     protokoll |-> OrNone(Get(payload, "protokoll", None)),
     teilnehmer |-> Get(payload, "teilnehmer", <<>>),
     gaeste |-> Get(payload, "gaeste", <<>>),
     agenda |-> Get(payload, "agenda", <<>>),
     ziele |-> Get(payload, "ziele", <<>>),
     hinweise |-> Get(payload, "hinweise", <<>>)]

\* lines 127-144; list(x or []) of a list x is x
from_dict(payload) ==
    [titel |-> Get(payload, "titel", DefaultTitel),
     datum |-> OrNone(Get(payload, "datum", None)),
     ort |-> OrNone(Get(payload, "ort", None)),
     startzeit |-> OrNone(Get(payload, "startzeit", None)),
     endzeit |-> OrNone(Get(payload, "endzeit", None)),
     moderation |-> OrNone(Get(payload, "moderation", None)),
     protokoll |-> OrNone(Get(payload, "protokoll", None)),
     teilnehmer |-> Get(payload, "teilnehmer", <<>>),
     gaeste |-> Get(payload, "gaeste", <<>>),
     agenda |-> Get(payload, "agenda", <<>>),
     ziele |-> Get(payload, "ziele", <<>>),
     hinweise |-> Get(payload, "hinweise", <<>>)]

OptionalFields == {"datum", "ort", "startzeit", "endzeit", "moderation", "protokoll"}
ListFields == {"teilnehmer", "gaeste", "agenda", "ziele", "hinweise"}

TitelValues == {<<>>, <<"T">>}
OptionalValues == {None, Some(<<>>), Some(<<"x">>)}
ListValues == {<<>>, << <<"p">>, <<"q">> >>}

\* every MeetingMetadata over these field values
MetadataValues ==
    [titel : TitelValues,
     datum : OptionalValues, ort : OptionalValues,
     startzeit : OptionalValues, endzeit : OptionalValues,
     moderation : OptionalValues, protokoll : OptionalValues,
     teilnehmer : ListValues, gaeste : ListValues, agenda : ListValues,
     ziele : ListValues, hinweise : ListValues]

MetaInit ==
    /\ call \in [m : MetadataValues]
    /\ pc = "call"
    /\ ret = <<>>
    /\ GenIdle

ToDict ==
    /\ pc = "call"
    /\ pc' = "dict"
    /\ ret' = to_dict(call.m)
    /\ UNCHANGED <<call, genVars>>

FromDict ==
    /\ pc = "dict"
    /\ pc' = "done"
    /\ ret' = from_dict(ret)
    /\ UNCHANGED <<call, genVars>>

MetaNext == ToDict \/ FromDict

SpecMeta == MetaInit /\ [][MetaNext]_vars

\* C4 as stated: from_dict(m.to_dict()) equals m in every one of the twelve
\* fields, for every m, optional fields holding the empty string included.
C4_RoundTripAllFields ==
    pc = "done" => ret = call.m

\* C4 as amended: the title and the five lists always come back unchanged,
\* and so does every optional field that is None or a non-empty string; an
\* optional field that holds the empty string comes back as None.
C4_RoundTripNormalised ==
    pc = "done" =>
        /\ DOMAIN ret = DOMAIN call.m
        /\ ret.titel = call.m.titel
        /\ \A f \in ListFields : ret[f] = call.m[f]
        /\ \A f \in OptionalFields :
               ret[f] = IF call.m[f] = Some(<<>>) THEN None ELSE call.m[f]

C4_Witness ==
    /\ pc = "done"
    /\ call.m.titel = <<>>
    /\ call.m.datum = None
    /\ call.m.ort = Some(<<"x">>)
    /\ call.m.agenda = <<>>
    /\ call.m.ziele # <<>>
    /\ \A f \in OptionalFields : call.m[f] # Some(<<>>)
    /\ ret = call.m

----------------------------------------------------------------------------
(* dashboard: render_dashboard, _render_card, write_dashboard *)

\* line 20-33
default_modules ==
    << [name |-> <<"Sitzungsprotokolle">>,
        description |-> <<"Erstellt aus Audioaufnahmen ...">>,
        command |-> <<"python -m political_party_kit.meeting_minutes">>,
        documentation |-> Some(<<"README.md#meeting-minutes-module">>)] >>

\* lines 189-201; " ".join(filter(None, [doc_link, command_html]))
render_card(title, description, command, documentation) ==
    LET doc_link == IF TruthyOpt(documentation)
                    THEN <<"<a class=\"button\" href=\"">> \o documentation[1]
                             \o <<"\">Dokumentation</a>">>
                    ELSE <<>>
        command_html == <<"<code>">> \o command \o <<"</code>">>
        actions == Join(SelectSeq(<<doc_link, command_html>>,
                                  LAMBDA x : x # <<>>), <<" ">>)
    IN  <<"<article>", "<h2>">> \o title \o <<"</h2>", "<p>">> \o description
            \o <<"</p>", "<div class=\"actions\">">> \o actions
            \o <<"</div>", "</article>">>

\* modules or default_modules(), for modules an Optional[list]
ModulesOrDefault(modules) ==
    IF modules # None /\ modules[1] # <<>> THEN modules[1] ELSE default_modules

\* lines 36-186; the page around the cards is a fixed template
render_dashboard(modules) ==
    LET ms == ModulesOrDefault(modules)
        module_cards ==
            Join([i \in 1..Len(ms) |->
                      render_card(ms[i].name, ms[i].description,
                                  ms[i].command, ms[i].documentation)],
                 <<"\n">>)
    IN  <<"<!DOCTYPE html>...<main>">> \o module_cards \o <<"</main>...</html>">>

\* lines 204-209: list(modules) if modules else None
write_dashboard_arg(modules) ==
    IF modules # None /\ modules[1] # <<>> THEN modules ELSE None

ModuleEntries ==
    [name : {<<"N">>, <<"M">>}, description : {<<"d">>}, command : {<<"c">>},
     documentation : {None, Some(<<>>), Some(<<"r">>)}]

DashInit ==
    /\ call \in [modules : {None} \cup {Some(l) : l \in SeqsUpTo(ModuleEntries, MaxModules)}]
    /\ pc = "call"
    /\ ret = <<>>
    /\ GenIdle

RenderDashboard ==
    /\ pc = "call"
    /\ pc' = "done"
    /\ ret' = [html |-> render_dashboard(call.modules), file |-> None]
    /\ UNCHANGED <<call, genVars>>

WriteDashboard ==
    /\ pc = "call"
    /\ pc' = "done"
    /\ LET html == render_dashboard(write_dashboard_arg(call.modules))
       IN  ret' = [html |-> html, file |-> Some(html)]
    /\ UNCHANGED <<call, genVars>>

DashNext == RenderDashboard \/ WriteDashboard

SpecDash == DashInit /\ [][DashNext]_vars

\* the positions of the cards of a page, and the text of the k-th card
ArticleStarts(html) == {i \in 1..Len(html) : html[i] = "<article>"}
ArticleEnds(html) == {i \in 1..Len(html) : html[i] = "</article>"}
NthOf(S, k) == CHOOSE x \in S : Cardinality({y \in S : y <= x}) = k
CardAt(html, k) ==
    SubSeq(html, NthOf(ArticleStarts(html), k), NthOf(ArticleEnds(html), k))

\* the text of card between the first atom open and the next atom close
Between(card, open, close) ==
    LET a == SetMin({i \in 1..Len(card) : card[i] = open})
        b == SetMin({i \in (a + 1)..Len(card) : card[i] = close})
    IN  SubSeq(card, a + 1, b - 1)

HasDocLink(card) == \E i \in 1..Len(card) : card[i] = "<a class=\"button\" href=\""

\* C5: for any list of module descriptors given to render_dashboard or
\* write_dashboard, the page holds exactly one card per given module, in list
\* order, each with that module's name, description and command, and a card
\* has a documentation link iff its module has a (non-empty) documentation.
C5_OneCardPerModule ==
    (pc = "done" /\ call.modules # None) =>
        LET given == call.modules[1]
            html == ret.html
        IN  /\ Cardinality(ArticleStarts(html)) = Len(given)
            /\ Cardinality(ArticleEnds(html)) = Len(given)
            /\ \A k \in 1..Len(given) :
                   LET card == CardAt(html, k)
                   IN  /\ Between(card, "<h2>", "</h2>") = given[k].name
                       /\ Between(card, "<p>", "</p>") = given[k].description
                       /\ Between(card, "<code>", "</code>") = given[k].command
                       /\ HasDocLink(card) <=> TruthyOpt(given[k].documentation)

----------------------------------------------------------------------------
(* build_docx *)

\* lines 147-151
human_join(items) == Join(StrippedNonEmpty(items), <<", ">>)

\* " - ".join(filter(None, [self.startzeit, self.endzeit])), lines 64 and 94
Slot(self) ==
    Join([i \in 1..Len(SelectSeq(<<self.startzeit, self.endzeit>>, TruthyOpt)) |->
              SelectSeq(<<self.startzeit, self.endzeit>>, TruthyOpt)[i][1]],
         <<" - ">>)

\* lines 88-107
to_docx_header_fields(self) ==
    (IF TruthyOpt(self.datum) THEN << <<"Datum: ">> \o self.datum[1] >> ELSE <<>>)
    \o (IF Slot(self) # <<>> THEN << <<"Zeitfenster: ">> \o Slot(self) >> ELSE <<>>)
    \o (IF TruthyOpt(self.ort) THEN << <<"Ort: ">> \o self.ort[1] >> ELSE <<>>)
    \o (IF TruthyOpt(self.moderation)
        THEN << <<"Moderation: ">> \o self.moderation[1] >> ELSE <<>>)
    \o (IF TruthyOpt(self.protokoll)
        THEN << <<"Protokoll: ">> \o self.protokoll[1] >> ELSE <<>>)
    \o (IF self.teilnehmer # <<>>
        THEN << <<"Teilnehmer: ">> \o human_join(self.teilnehmer) >> ELSE <<>>)
    \o (IF self.gaeste # <<>>
        THEN << <<"Gaeste: ">> \o human_join(self.gaeste) >> ELSE <<>>)

\* a paragraph of the document: its text, whether its run is bold, the run's
\* font size in points (0: the style's), its style and its alignment
Paragraph(text, bold, size, style, alignment) ==
    [text |-> text, bold |-> bold, size |-> size, style |-> style,
     alignment |-> alignment]

Plain(text) == Paragraph(text, FALSE, 0, "Normal", "left")

\* lines 276-280
SectionHeading(value) == Paragraph(value, TRUE, 12, "Normal", "left")

\* lines 282-298: a heading, one list paragraph per entry, an empty paragraph
Section(title, entries, style) ==
    IF entries = <<>>
    THEN <<>>
    ELSE <<SectionHeading(title)>>
             \o [i \in 1..Len(entries) |-> Paragraph(entries[i], FALSE, 0, style, "left")]
             \o <<Plain(<<>>)>>

\* lines 260-298
DocHeader(m) ==
    <<Paragraph(IF m.titel # <<>> THEN m.titel ELSE DefaultTitel,
                TRUE, 20, "Normal", "center")>>
    \o (IF to_docx_header_fields(m) # <<>>
        THEN <<Paragraph(Join(to_docx_header_fields(m), <<"  |  ">>),
                         FALSE, 0, "Normal", "center")>>
        ELSE <<>>)
    \o <<Plain(<<>>)>>
    \o Section(<<"Tagesordnung">>, m.agenda, "List Number")
    \o Section(<<"Sitzungsziele">>, m.ziele, "List Bullet")
    \o Section(<<"Besondere Hinweise">>, m.hinweise, "List Bullet")

\* line 308: the length a label line must stay under
LabelMaxLen == 120

\* the bullet markers of line 313; "u2022" stands for the character U+2022
BulletMarkers == {"-", "*", "u2022"}

StartsWith(s, chars) == s # <<>> /\ s[1] \in chars
EndsWith(s, c) == s # <<>> /\ s[Len(s)] = c

\* str.count(c), line 303
Count(s, c) == Cardinality({i \in 1..Len(s) : s[i] = c})

\* line 302: startswith(("#", "##", "###")) is startswith("#")
IsHeading(stripped) == StartsWith(stripped, {"#"})

\* line 308
IsLabel(stripped) == EndsWith(stripped, ":") /\ Len(stripped) < LabelMaxLen

\* a body paragraph that is never set in a list style
BodyParagraphNoBullets(line) ==
    LET stripped == Strip(line)
    IN  IF IsHeading(stripped)
        THEN Paragraph(Strip(LStripChars(stripped, {"#"})), TRUE,
                       IF Count(stripped, "#") = 1 THEN 14 ELSE 12,
                       "Normal", "left")
        ELSE IF IsLabel(stripped)
        THEN Paragraph(stripped, TRUE, 0, "Normal", "left")
        ELSE Plain(line)

\* lines 301-316: the paragraph added for one line of the text
BodyParagraph(line) ==
    LET stripped == Strip(line)
    IN  IF IsHeading(stripped)
        THEN Paragraph(Strip(LStripChars(stripped, {"#"})), TRUE,
                       IF Count(stripped, "#") = 1 THEN 14 ELSE 12,
                       "Normal", "left")
        ELSE IF IsLabel(stripped)
        THEN Paragraph(stripped, TRUE, 0, "Normal", "left")
        ELSE IF StartsWith(stripped, BulletMarkers)
        THEN Paragraph(Strip(LStripChars(stripped, BulletMarkers \cup {" "})),
                       FALSE, 0, "List Bullet", "left")
        ELSE Plain(line)

\* a body loop that skips the empty lines of the text
DocBodySkippingBlank(text) ==
    LET lines == SelectSeq(Split(text, "\n"), LAMBDA l : l # <<>>)
    IN  [i \in 1..Len(lines) |-> BodyParagraph(lines[i])]

\* lines 300-316
DocBody(text) ==
    LET lines == Split(text, "\n")
    IN  [i \in 1..Len(lines) |-> BodyParagraph(lines[i])]

\* lines 318-320; the atom "<now>" stands for the formatted current time
DocFooter ==
    <<Plain(<<>>), Paragraph(<<"Erstellt am ", "<now>">>, FALSE, 0, "Normal", "right")>>

\* MeetingMetadata(), lines 43-54
MetaDefault ==
    [titel |-> DefaultTitel,
     datum |-> None, ort |-> None, startzeit |-> None, endzeit |-> None,
     moderation |-> None, protokoll |-> None,
     teilnehmer |-> <<>>, gaeste |-> <<>>, agenda |-> <<>>, ziele |-> <<>>,
     hinweise |-> <<>>]

\* a record with every field filled in
MetaFull ==
    [titel |-> <<"T">>,
     datum |-> Some(<<"1">>), ort |-> Some(<<"o">>),
     startzeit |-> Some(<<"9">>), endzeit |-> Some(<<>>),
     moderation |-> Some(<<"m">>), protokoll |-> Some(<<"p">>),
     teilnehmer |-> << <<"x">>, <<" ">>, <<"y", " ">> >>, gaeste |-> << <<"g">> >>,
     agenda |-> << <<"t">>, <<"u">> >>, ziele |-> << <<"z">> >>,
     hinweise |-> << <<"h">> >>]

Pad(n) == [i \in 1..n |-> "a"]

\* the lines the body texts are made of: every formatting branch, the two
\* sides of the label length, and markers in the middle and at the end
DocLines ==
    { <<>>, <<"a">>, <<" ", "a", " ">>,
      <<"#", "a">>, <<"#", "#", " ", "a">>, <<" ", "#", "a">>,
      <<"#", "a", "#">>, <<"#", "a", ":">>,
      <<"a", ":">>, <<"a", ":", " ">>,
      <<"-", " ", "a">>, <<"*", "a">>, <<"u2022", "a">>,
      <<"-", "a", ":">>,
      Pad(LabelMaxLen - 2) \o <<":">>,
      Pad(LabelMaxLen - 1) \o <<":">>,
      <<" ">> \o Pad(LabelMaxLen - 2) \o <<":", " ">>,
      <<"-">> \o Pad(LabelMaxLen - 2) \o <<":">>,
      <<"#">> \o Pad(LabelMaxLen) \o <<":">> }

\* the body texts: up to MaxDocLines lines joined by newlines
DocTexts ==
    {Join(ls, <<"\n">>) : ls \in UNION {[1..k -> DocLines] : k \in 1..MaxDocLines}}

DocxInit ==
    /\ call \in [text : DocTexts, meta : {MetaDefault, MetaFull}]
    /\ pc = "call"
    /\ ret = <<>>
    /\ GenIdle

\* lines 260-298: the title block, the header line and the sections
DocxHeader ==
    /\ pc = "call"
    /\ pc' = "body"
    /\ ret' = DocHeader(call.meta)
    /\ UNCHANGED <<call, genVars>>

\* lines 300-316: the body
DocxBody ==
    /\ pc = "body"
    /\ pc' = "footer"
    /\ ret' = ret \o DocBody(call.text)
    /\ UNCHANGED <<call, genVars>>

\* lines 318-322: the footer; the document is then saved
DocxFooter ==
    /\ pc = "footer"
    /\ pc' = "done"
    /\ ret' = ret \o DocFooter
    /\ UNCHANGED <<call, genVars>>

DocxNext == DocxHeader \/ DocxBody \/ DocxFooter

SpecDocx == DocxInit /\ [][DocxNext]_vars

\* the n-th line of text, by the positions of its newlines
LineStarts(text) == Boundaries(text, "\n") \ {Len(text) + 1}
NthLine(text, n) == ItemAfter(text, "\n", NthOf(LineStarts(text), n))

\* y is a contiguous part of x
IsPartOf(y, x) ==
    \E a \in 1..(Len(x) - Len(y) + 1) : y = SubSeq(x, a, a + Len(y) - 1)

NonBlankPositions(line) == {i \in 1..Len(line) : line[i] \notin Whitespace}
SetMax(S) == CHOOSE x \in S : \A y \in S : x >= y

\* the heading heuristic: the trimmed line starts with "#"
HeadingHeuristic(line) ==
    /\ NonBlankPositions(line) # {}
    /\ line[SetMin(NonBlankPositions(line))] = "#"

\* the label heuristic: the trimmed line ends with ":" and is shorter than 120
LabelHeuristic(line) ==
    /\ NonBlankPositions(line) # {}
    /\ line[SetMax(NonBlankPositions(line))] = ":"
    /\ SetMax(NonBlankPositions(line)) - SetMin(NonBlankPositions(line)) + 1 < 120

\* C10: the body loop of build_docx adds exactly one paragraph for each line
\* of the body text, in line order, and a body paragraph is bold only if its
\* line matches the heading heuristic or the label heuristic.
C10_OneParagraphPerLine ==
    [][(pc = "body" /\ pc' = "footer") =>
          LET n == Cardinality(LineStarts(call.text))
          IN  /\ Len(ret') = Len(ret) + n
              /\ SubSeq(ret', 1, Len(ret)) = ret
              /\ \A i \in 1..n :
                     LET para == ret'[Len(ret) + i]
                         line == NthLine(call.text, i)
                     IN  /\ IsPartOf(para.text, line)
                         /\ para.bold =>
                                (HeadingHeuristic(line) \/ LabelHeuristic(line))]_vars

C10_Witness ==
    /\ pc = "footer"
    /\ Cardinality(LineStarts(call.text)) = 2
    /\ call.meta = MetaFull
    /\ \E i \in 1..Len(ret) : ret[i].bold /\ ret[i].size = 0
    /\ \E i \in 1..Len(ret) : ret[i].style = "List Bullet" /\ Len(ret[i].text) >= LabelMaxLen - 2
    /\ ~ret[Len(ret)].bold

\* once the body is written (pc = "footer") it is the tail of the document:
\* the paragraph of the i-th of the n lines of the text
BodyLineCount == Cardinality(LineStarts(call.text))
BodyPara(i) == ret[Len(ret) - BodyLineCount + i]

\* the line without its leading and trailing whitespace
TrimmedLine(line) ==
    IF NonBlankPositions(line) = {}
    THEN <<>>
    ELSE SubSeq(line, SetMin(NonBlankPositions(line)), SetMax(NonBlankPositions(line)))

\* the trimmed line starts with a bullet marker
BulletLine(line) ==
    TrimmedLine(line) # <<>> /\ TrimmedLine(line)[1] \in {"-", "*", "u2022"}

\* text is the item of a bullet line: the trimmed line without the markers
\* and spaces it starts with, trimmed again
IsBulletItemOf(text, line) ==
    LET t == TrimmedLine(line)
    IN  \E k \in 1..(Len(t) + 1) :
            /\ \A j \in 1..(k - 1) : t[j] \in {"-", "*", "u2022", " "}
            /\ k <= Len(t) => t[k] \notin {"-", "*", "u2022", " "}
            /\ text = TrimmedLine(SubSeq(t, k, Len(t)))

IsBulletItem(para, line) ==
    /\ para.style = "List Bullet"
    /\ ~para.bold
    /\ IsBulletItemOf(para.text, line)

\* C13 as stated: every body line whose trimmed text starts with a bullet
\* marker is rendered as a bullet-list item (a non-bold "List Bullet"
\* paragraph with the marker removed), whatever the rest of the line is.
C13_BulletLinesAreBullets ==
    pc = "footer" =>
        \A i \in 1..BodyLineCount :
            BulletLine(NthLine(call.text, i))
                => IsBulletItem(BodyPara(i), NthLine(call.text, i))

\* C13 as amended: every body line whose trimmed text starts with a bullet
\* marker and does not match the label heuristic (it does not end with ":",
\* or is 120 characters or longer) is rendered as a bullet-list item; a
\* bullet line that matches the label heuristic is a bold label that keeps
\* its marker.
C13_BulletLinesUnlessLabel ==
    pc = "footer" =>
        \A i \in 1..BodyLineCount :
            LET line == NthLine(call.text, i)
            IN  BulletLine(line) =>
                    IF LabelHeuristic(line)
                    THEN /\ BodyPara(i).bold
                         /\ BodyPara(i).style = "Normal"
                         /\ BodyPara(i).text = TrimmedLine(line)
                    ELSE IsBulletItem(BodyPara(i), line)

C13_Witness ==
    /\ pc = "footer"
    /\ BodyLineCount = 2
    /\ BulletLine(NthLine(call.text, 1))
    /\ ~LabelHeuristic(NthLine(call.text, 1))
    /\ Len(NthLine(call.text, 1)) >= 120
    /\ BodyPara(1).style = "List Bullet"
    /\ BulletLine(NthLine(call.text, 2))
    /\ LabelHeuristic(NthLine(call.text, 2))
    /\ BodyPara(2).bold

\* the heading level of a line: the number of "#" its trimmed text starts with
HeadingLevel(line) ==
    LET t == TrimmedLine(line)
    IN  Cardinality({k \in 1..Len(t) : \A j \in 1..k : t[j] = "#"})

\* C14: a body line starting with "#" becomes a bold heading whose font size
\* is that of its heading level, the number of leading "#": 14pt for level 1
\* and 12pt for any deeper level, whatever "#" occur later in the line.
C14_HeadingSizedByLevel ==
    pc = "footer" =>
        \A i \in 1..BodyLineCount :
            HeadingHeuristic(NthLine(call.text, i)) =>
                /\ BodyPara(i).bold
                /\ BodyPara(i).size =
                       IF HeadingLevel(NthLine(call.text, i)) = 1 THEN 14 ELSE 12

----------------------------------------------------------------------------
(* MeetingMetadata objects *)

\* the heap h with the record v stored in object o
Store(h, o, v) == [x \in DOMAIN h \cup {o} |-> IF x = o THEN v ELSE h[x]]

\* an assignment that takes the place of the copy: the same object
CopyAlias(src, fresh) == src

\* copy.deepcopy(src), lines 356 and 421: the object the copy is, a new one
CopyTarget(src, fresh) == fresh

----------------------------------------------------------------------------
(* collect_meeting_metadata: one round of prompts *)

\* lines 325-330: what prompt_with_default returns when the user types typed
prompt_with_default(typed, default) ==
    IF Strip(typed) # <<>> THEN Strip(typed) ELSE default

\* lines 342-350: the typed lines up to the first blank one, trimmed
RECURSIVE Entries(_)
Entries(typed) ==
    IF typed = <<>> \/ Strip(Head(typed)) = <<>>
    THEN <<>>
    ELSE <<Strip(Head(typed))>> \o Entries(Tail(typed))

\* lines 333-350
prompt_list(typed, default) ==
    IF Entries(typed) # <<>> THEN Entries(typed) ELSE default

\* x or "", for an Optional[str]
OrEmpty(x) == IF TruthyOpt(x) THEN x[1] ELSE <<>>

\* datetime.now().strftime("%Y-%m-%d"), as one atom
Today == <<"<today>">>

\* lines 359-372: the record after one round in which the user typed input
PromptRound(m, input) ==
    [titel |-> prompt_with_default(input.titel,
                                   IF m.titel # <<>> THEN m.titel ELSE DefaultTitel),
     datum |-> Some(prompt_with_default(input.datum,
                                        IF TruthyOpt(m.datum) THEN m.datum[1] ELSE Today)),
     startzeit |-> Some(prompt_with_default(input.startzeit, OrEmpty(m.startzeit))),
     endzeit |-> Some(prompt_with_default(input.endzeit, OrEmpty(m.endzeit))),
     ort |-> Some(prompt_with_default(input.ort, OrEmpty(m.ort))),
     moderation |-> Some(prompt_with_default(input.moderation, OrEmpty(m.moderation))),
     protokoll |-> Some(prompt_with_default(input.protokoll, OrEmpty(m.protokoll))),
     teilnehmer |-> prompt_list(input.teilnehmer, m.teilnehmer),
     gaeste |-> prompt_list(input.gaeste, m.gaeste),
     agenda |-> prompt_list(input.agenda, m.agenda),
     ziele |-> prompt_list(input.ziele, m.ziele),
     hinweise |-> prompt_list(input.hinweise, m.hinweise)]

\* str.lower() on the letters the answers are made of
LowerChar(c) ==
    CASE c = "J" -> "j" [] c = "A" -> "a" [] c = "Y" -> "y" [] c = "E" -> "e"
      [] c = "S" -> "s" [] c = "N" -> "n" [] OTHER -> c
Lower(s) == [i \in 1..Len(s) |-> LowerChar(s[i])]

\* a confirmation that has to be typed out
AffirmativeTyped(answer) ==
    Lower(Strip(answer)) \in {<<"j">>, <<"j", "a">>, <<"y">>, <<"y", "e", "s">>}

\* lines 394-395
Affirmative(answer) ==
    Lower(Strip(answer)) \in {<<>>, <<"j">>, <<"j", "a">>, <<"y">>, <<"y", "e", "s">>}

----------------------------------------------------------------------------
(* MeetingMinutesGenerator.generate *)

\* line 430: the budget generate gives to chunk_text
GenerateTargetChars == 7000

\* lines 56-86
to_prompt_header(self) ==
    LET item(x) == <<"  - ">> \o x
        block(title, xs) ==
            IF xs = <<>> THEN <<>>
            ELSE << <<title>> >> \o [i \in 1..Len(xs) |-> item(xs[i])]
        lines ==
            (IF self.titel # <<>> THEN << <<"Titel: ">> \o self.titel >> ELSE <<>>)
            \o (IF TruthyOpt(self.datum)
                THEN << <<"Datum: ">> \o self.datum[1] >> ELSE <<>>)
            \o (IF Slot(self) # <<>>
                THEN << <<"Zeitfenster: ">> \o Slot(self) >> ELSE <<>>)
            \o (IF TruthyOpt(self.ort) THEN << <<"Ort: ">> \o self.ort[1] >> ELSE <<>>)
            \o (IF TruthyOpt(self.moderation)
                THEN << <<"Moderation: ">> \o self.moderation[1] >> ELSE <<>>)
            \o (IF TruthyOpt(self.protokoll)
                THEN << <<"Protokollfuehrung: ">> \o self.protokoll[1] >> ELSE <<>>)
            \o (IF self.teilnehmer # <<>>
                THEN << <<"Teilnehmer: ">> \o human_join(self.teilnehmer) >> ELSE <<>>)
            \o (IF self.gaeste # <<>>
                THEN << <<"Gaeste: ">> \o human_join(self.gaeste) >> ELSE <<>>)
            \o block("Ziele:", self.ziele)
            \o block("Tagesordnung:", self.agenda)
            \o block("Hinweise:", self.hinweise)
    IN  Join(lines, <<"\n">>)

\* line 224: the user prompt of summarize_chunk
SummarizePrompt(text) == <<"Textauszug:", "\n", "\n">> \o text

\* line 245: the user prompt of consolidate_summaries
ConsolidatePrompt(summaries, m) ==
    to_prompt_header(m) \o <<"\n", "\n", "Teilzusammenfassungen:", "\n", "\n">>
        \o Join(summaries, <<"\n", "\n">>)

\* a request the client sends, the response it gets, or the failure it raises
Request(svc, arg) == [ev |-> "call", svc |-> svc, arg |-> arg]
Response(svc, value) == [ev |-> "return", svc |-> svc, arg |-> value]
Failure(svc) == [ev |-> "raise", svc |-> svc, arg |-> <<>>]

\* an existence test that is never made
PathAssumed(audio_exists) == TRUE

\* line 201: file_path.exists()
PathExists(audio_exists) == audio_exists

\* a loop that always summarises the first chunk
FirstChunk(cs, index) == cs[1]

\* line 438: the chunk of the index-th iteration
ChunkAt(cs, index) == cs[index]

\* a file name counted from zero
PartialNameFromZero(index) == index - 1

\* line 442: teil_{index:02d}.md, named by its number
PartialName(index) == index

\* line 442: (partial_dir / name).write_text(summary)
WritePartial(fs, index, summary) ==
    [fs EXCEPT !.partials =
         [k \in DOMAIN fs.partials \cup {PartialName(index)} |->
              IF k = PartialName(index) THEN summary ELSE fs.partials[k]]]

\* the k-th of the paragraphs GenerateTargetChars cannot hold two of
LongPara(k) ==
    [i \in 1..(GenerateTargetChars \div 2 + 1) |-> IF i <= k THEN "b" ELSE "a"]

\* what the speech-to-text service may return: nothing, one short chunk of
\* two paragraphs, and 2..MaxChunks paragraphs that need a chunk each
Transcripts ==
    {<<>>, <<" ", "a", "\n", "\n", "b", "\n">>}
        \cup {Join([i \in 1..k |-> LongPara(i)], <<"\n">>) : k \in 2..MaxChunks}

\* what the text-generation service may return for a chunk
SummaryContents == {<<"s">>, <<" ", "t", "\n">>}

\* what it may return for the consolidation
FinalContents == {<<"#", "a", "\n", "-", "b">>}

BlankInput ==
    [titel |-> <<>>, datum |-> <<>>, startzeit |-> <<>>, endzeit |-> <<>>,
     ort |-> <<>>, moderation |-> <<>>, protokoll |-> <<>>,
     teilnehmer |-> <<>>, gaeste |-> <<>>, agenda |-> <<>>, ziele |-> <<>>,
     hinweise |-> <<>>]

\* what the user types in a round of prompts during generate
GenRoundInputs ==
    {BlankInput,
     [BlankInput EXCEPT !.titel = <<" ", "X">>,
                        !.agenda = << <<"k", " ">>, <<>>, <<"l">> >>]}

GenAnswers == {<<>>, <<"J", "a", " ">>, <<"n">>}

GenInit ==
    /\ call \in [audio_exists : BOOLEAN, save_transcript : BOOLEAN,
                 save_partials : BOOLEAN, prompt_for_metadata : BOOLEAN,
                 metadata : {MetaDefault, MetaFull}]
    /\ pc = "call"
    /\ ret = <<>>
    /\ heap = Store(<<>>, "metadata", call.metadata)
    /\ meta = <<>>
    /\ transcript = <<>>
    /\ chunks = <<>>
    /\ partial_summaries = <<>>
    /\ final_minutes = <<>>
    /\ files = NoFiles
    /\ calls = <<>>
    /\ error = <<>>

genLocals == <<transcript, chunks, partial_summaries, final_minutes>>

\* lines 421-423 and 356: meta = copy.deepcopy(metadata); with prompting,
\* collect_meeting_metadata is entered and copies its argument in turn
GenCopy ==
    /\ pc = "call"
    /\ meta' = CopyTarget("metadata", "generate.meta")
    /\ heap' = IF call.prompt_for_metadata
               THEN Store(Store(heap, meta', heap["metadata"]),
                          CopyTarget(meta', "collect.meta"), heap["metadata"])
               ELSE Store(heap, meta', heap["metadata"])
    /\ pc' = IF call.prompt_for_metadata THEN "collect" ELSE "transcribe"
    /\ UNCHANGED <<call, ret, genLocals, files, calls, error>>

\* the object collect_meeting_metadata works on while generate waits for it
CollectMeta == CopyTarget(meta, "collect.meta")

\* lines 357-397 and 423: one round of prompts and its confirmation; on an
\* affirmative answer the record is returned and becomes generate's meta
Collect ==
    /\ pc = "collect"
    /\ \E input \in GenRoundInputs, answer \in GenAnswers :
           /\ heap' = Store(heap, CollectMeta, PromptRound(heap[CollectMeta], input))
           /\ meta' = IF Affirmative(answer) THEN CollectMeta ELSE meta
           /\ pc' = IF Affirmative(answer) THEN "transcribe" ELSE "collect"
    /\ UNCHANGED <<call, ret, genLocals, files, calls, error>>

\* lines 200-202: the audio file is missing
TranscribeMissing ==
    /\ pc = "transcribe"
    /\ ~PathExists(call.audio_exists)
    /\ error' = Some("FileNotFoundError")
    /\ pc' = "failed"
    /\ UNCHANGED <<call, ret, meta, heap, genLocals, files, calls>>

\* lines 204-210: the request to the speech-to-text service
TranscribeCall ==
    /\ pc = "transcribe"
    /\ PathExists(call.audio_exists)
    /\ calls' = Append(calls, Request("transcribe", <<"<audio>">>))
    /\ pc' = "transcribing"
    /\ UNCHANGED <<call, ret, meta, heap, genLocals, files, error>>

\* lines 211-213 and 425-436: the service answers; the transcript is trimmed,
\* saved if asked for, and chunked
TranscribeReturn ==
    /\ pc = "transcribing"
    /\ \E text \in Transcripts :
           /\ calls' = Append(calls, Response("transcribe", text))
           /\ transcript' = Strip(text)
           /\ files' = IF call.save_transcript
                       THEN [files EXCEPT !.transcript = Some(Strip(text))]
                       ELSE files
           /\ chunks' = chunk_text(Strip(text), GenerateTargetChars)
           /\ pc' = IF chunk_text(Strip(text), GenerateTargetChars) # <<>>
                    THEN "summarize" ELSE "consolidate"
    /\ partial_summaries' = <<>>
    /\ UNCHANGED <<call, ret, meta, heap, final_minutes, error>>

\* lines 438-439 and 225-232: the request for the next chunk's summary
SummarizeCall ==
    /\ pc = "summarize"
    /\ calls' = Append(calls, Request("summarize",
                    SummarizePrompt(ChunkAt(chunks, Len(partial_summaries) + 1))))
    /\ pc' = "summarizing"
    /\ UNCHANGED <<call, ret, meta, heap, genLocals, files, error>>

\* lines 233 and 440-442: the summary comes back, is kept and, if asked for,
\* written to its file
SummarizeReturn ==
    /\ pc = "summarizing"
    /\ \E content \in SummaryContents :
           /\ calls' = Append(calls, Response("summarize", content))
           /\ partial_summaries' = Append(partial_summaries, Strip(content))
           /\ files' = IF call.save_partials
                       THEN WritePartial(files, Len(partial_summaries) + 1, Strip(content))
                       ELSE files
    /\ pc' = IF Len(partial_summaries) + 1 < Len(chunks)
             THEN "summarize" ELSE "consolidate"
    /\ UNCHANGED <<call, ret, meta, heap, transcript, chunks, final_minutes, error>>

\* lines 444-447 and 246-253: the request for the consolidation
ConsolidateCall ==
    /\ pc = "consolidate"
    /\ calls' = Append(calls, Request("consolidate",
                    ConsolidatePrompt(IF partial_summaries # <<>>
                                      THEN partial_summaries
                                      ELSE <<transcript>>, heap[meta])))
    /\ pc' = "consolidating"
    /\ UNCHANGED <<call, ret, meta, heap, genLocals, files, error>>

\* line 254: the consolidated text comes back
ConsolidateReturn ==
    /\ pc = "consolidating"
    /\ \E content \in FinalContents :
           /\ calls' = Append(calls, Response("consolidate", content))
           /\ final_minutes' = Strip(content)
    /\ pc' = "build"
    /\ UNCHANGED <<call, ret, meta, heap, transcript, chunks, partial_summaries, files,
                   error>>

\* the pending request fails: the exception leaves generate
ServiceRaise ==
    /\ pc \in {"transcribing", "summarizing", "consolidating"}
    /\ calls' = Append(calls, Failure(calls[Len(calls)].svc))
    /\ error' = Some("APIError")
    /\ pc' = "failed"
    /\ UNCHANGED <<call, ret, meta, heap, genLocals, files>>

\* lines 449-450: the document is built and saved, its path returned
BuildDocx ==
    /\ pc = "build"
    /\ files' = [files EXCEPT
                     !.docx = Some(DocHeader(heap[meta]) \o DocBody(final_minutes) \o DocFooter)]
    /\ ret' = <<"<output_path>">>
    /\ pc' = "done"
    /\ UNCHANGED <<call, meta, heap, genLocals, calls, error>>

GenNext ==
    \/ GenCopy
    \/ Collect
    \/ TranscribeMissing
    \/ TranscribeCall
    \/ TranscribeReturn
    \/ SummarizeCall
    \/ SummarizeReturn
    \/ ConsolidateCall
    \/ ConsolidateReturn
    \/ ServiceRaise
    \/ BuildDocx

SpecGen == GenInit /\ [][GenNext]_vars

\* the positions in the client's record of the events ev of service svc
EventsOf(svc, ev) ==
    {i \in 1..Len(calls) : calls[i].svc = svc /\ calls[i].ev = ev}

\* the chunks have been computed and there is at least one
ChunksKnown ==
    /\ chunks # <<>>
    /\ pc \in {"summarize", "summarizing", "consolidate", "consolidating",
               "build", "done", "failed"}

\* C6: over n >= 1 chunks the summarization service is called exactly n
\* times, the i-th call with the i-th chunk and only after the (i-1)-th call
\* has returned; the consolidation call is made once, after all n summaries
\* have returned, with the partial summaries in chunk order; the document is
\* written only after consolidation returns.
C6_SequentialMapReduce ==
    ChunksKnown =>
        LET n == Len(chunks)
            req == EventsOf("summarize", "call")
            res == EventsOf("summarize", "return")
            con == EventsOf("consolidate", "call")
        IN  \* a request is sent only when every earlier one has been answered
            /\ \A i \in 1..Len(calls) :
                   /\ calls[i].ev = "call" <=> i % 2 = 1
                   /\ i % 2 = 0 => calls[i].svc = calls[i - 1].svc
            \* the k-th summarization request carries the k-th chunk
            /\ Cardinality(req) <= n
            /\ \A i \in req :
                   calls[i].arg =
                       <<"Textauszug:", "\n", "\n">>
                           \o chunks[Cardinality({j \in req : j <= i})]
            \* one consolidation, after all n summaries, given them in order
            /\ Cardinality(con) <= 1
            /\ \A c \in con :
                   /\ Cardinality({r \in res : r < c}) = n
                   /\ calls[c].arg =
                          ConsolidatePrompt(
                              [k \in 1..n |-> Strip(calls[NthOf(res, k)].arg)], heap[meta])
            \* a finished run has made all n + 1 calls
            /\ pc = "done" => (Cardinality(req) = n /\ Cardinality(con) = 1)
            \* the document exists only once the consolidation has returned
            /\ files.docx # None => EventsOf("consolidate", "return") # {}

C6_Witness ==
    /\ pc = "done"
    /\ Len(chunks) >= 2
    /\ partial_summaries[1] # partial_summaries[2]
    /\ files.docx # None

\* C7: if an external call fails, the run ends with that failure, no later
\* service call is made and the document is never written; with a directory
\* for the partial summaries, the files of the chunks summarised before the
\* failure are there and no file of a later chunk is.
C7_FailureEndsRun ==
    /\ \A i \in 1..Len(calls) :
           calls[i].ev = "raise" => (i = Len(calls) /\ pc = "failed")
    /\ pc = "failed" => (error # None /\ files.docx = None /\ ret = <<>>)
    /\ (pc = "failed" /\ calls # <<>>) =>
           /\ calls[Len(calls)].ev = "raise"
           /\ error = Some("APIError")
           /\ LET k == Cardinality(EventsOf("summarize", "call"))
                  written == IF calls[Len(calls)].svc = "summarize" THEN k - 1 ELSE k
              IN  IF call.save_partials
                  THEN /\ DOMAIN files.partials = 1..written
                       /\ \A j \in 1..written :
                              files.partials[j] = Strip(calls[NthOf(EventsOf("summarize", "return"), j)].arg)
                  ELSE DOMAIN files.partials = {}

C7_Witness ==
    /\ pc = "failed"
    /\ call.save_partials
    /\ calls # <<>>
    /\ calls[Len(calls)].svc = "summarize"
    /\ Cardinality(EventsOf("summarize", "call")) = 2
    /\ DOMAIN files.partials = {1}

\* C8: with an audio path that does not exist transcribe_audio fails, the
\* speech-to-text service is never called, and generate writes no transcript
\* file, no partial-summary file and no document.
C8_MissingAudio ==
    ~call.audio_exists =>
        /\ calls = <<>>
        /\ files = NoFiles
        /\ pc \in {"call", "collect", "transcribe", "failed"}
        /\ pc = "failed" => error = Some("FileNotFoundError")

C8_Witness ==
    /\ pc = "failed"
    /\ ~call.audio_exists
    /\ call.save_transcript
    /\ call.save_partials
    /\ call.prompt_for_metadata
    /\ heap[meta] # call.metadata
    /\ error = Some("FileNotFoundError")

\* C11: the metadata record the caller passes to generate (and through it to
\* collect_meeting_metadata) is never modified: in every state of the run,
\* prompting or not and whatever the user typed, every field of the caller's
\* record, its lists included, has the value it had before the call, and the
\* record generate edits is another object, a copy.
C11_CallerMetadataUntouched ==
    /\ heap["metadata"] = call.metadata
    /\ pc # "call" => meta # "metadata"
    /\ pc = "collect" => CollectMeta # "metadata"

C11_Witness ==
    /\ pc = "done"
    /\ call.prompt_for_metadata
    /\ heap[meta].titel # call.metadata.titel
    /\ heap[meta].agenda # call.metadata.agenda
    /\ heap["metadata"] = call.metadata


----------------------------------------------------------------------------
(* collect_meeting_metadata, prompt by prompt *)

\* lines 359-371: the order in which the fields are prompted for
FieldOrder ==
    <<"titel", "datum", "startzeit", "endzeit", "ort", "moderation", "protokoll",
      "teilnehmer", "gaeste", "agenda", "ziele", "hinweise">>

\* lines 359-371 with 328 and 337-340: the default each prompt of a round
\* shows, for the record m the round starts from
Offered(m) ==
    [titel |-> IF m.titel # <<>> THEN m.titel ELSE DefaultTitel,
     datum |-> IF TruthyOpt(m.datum) THEN m.datum[1] ELSE Today,
     startzeit |-> OrEmpty(m.startzeit),
     endzeit |-> OrEmpty(m.endzeit),
     ort |-> OrEmpty(m.ort),
     moderation |-> OrEmpty(m.moderation),
     protokoll |-> OrEmpty(m.protokoll),
     teilnehmer |-> m.teilnehmer,
     gaeste |-> m.gaeste,
     agenda |-> m.agenda,
     ziele |-> m.ziele,
     hinweise |-> m.hinweise]

\* lines 359-371: the record when input() fails after the first k fields
\* of the round have been assigned
PartialRound(m, input, k) ==
    [f \in DOMAIN m |->
        IF \E i \in 1..k : FieldOrder[i] = f THEN PromptRound(m, input)[f] ELSE m[f]]

\* a record with an empty title, no date and an empty place
MetaBlank == [MetaFull EXCEPT !.titel = <<>>, !.ort = Some(<<>>), !.datum = None]

\* what the user types in a round of prompts
CollectInputs ==
    {BlankInput,
     [BlankInput EXCEPT !.titel = <<" ", "X">>,
                        !.startzeit = <<"8", " ">>,
                        !.agenda = << <<"k", " ">>, <<>>, <<"l">> >>],
     [BlankInput EXCEPT !.titel = <<"Y">>,
                        !.datum = <<"2">>,
                        !.teilnehmer = << <<"n">>, <<" ">>, <<"o">> >>,
                        !.gaeste = << <<" ">>, <<"n">> >>,
                        !.agenda = << <<"m">> >>]}

\* what the user answers to "Sind die Angaben korrekt? (J/n)"
CollectAnswers ==
    {<<>>, <<" ">>, <<"J", "a", " ">>, <<"Y", "E", "S">>, <<"j">>,
     <<"n">>, <<"y", "e">>, <<"j", "a", "j", "a">>}

CollectInit ==
    /\ call \in [base_meta : {MetaDefault, MetaFull, MetaBlank}]
    /\ pc = "call"
    /\ ret = <<>>
    /\ heap = Store(<<>>, "base_meta", call.base_meta)
    /\ meta = <<>>
    /\ transcript = <<>>
    /\ chunks = <<>>
    /\ partial_summaries = <<>>
    /\ final_minutes = <<>>
    /\ files = NoFiles
    /\ calls = <<>>
    /\ error = <<>>

\* line 356: meta = copy.deepcopy(base_meta)
CollectCopy ==
    /\ pc = "call"
    /\ meta' = CopyTarget("base_meta", "collect.meta")
    /\ heap' = Store(heap, meta', heap["base_meta"])
    /\ pc' = "prompts"
    /\ UNCHANGED <<call, ret, genLocals, files, calls, error>>

\* lines 357-372: one full round of prompts
CollectPrompts ==
    /\ pc = "prompts"
    /\ Cardinality(EventsOf("prompts", "call")) < MaxRounds
    /\ \E input \in CollectInputs :
           /\ calls' = calls \o <<Request("prompts", Offered(heap[meta])),
                                  Response("prompts", input)>>
           /\ heap' = Store(heap, meta, PromptRound(heap[meta], input))
    /\ pc' = "confirm"
    /\ UNCHANGED <<call, ret, meta, genLocals, files, error>>

\* lines 359-372: input() raises EOFError at one of the prompts of a round
CollectPromptsRaise ==
    /\ pc = "prompts"
    /\ Cardinality(EventsOf("prompts", "call")) < MaxRounds
    /\ \E input \in CollectInputs, k \in 0..(Len(FieldOrder) - 1) :
           heap' = Store(heap, meta, PartialRound(heap[meta], input, k))
    /\ calls' = calls \o <<Request("prompts", Offered(heap[meta])), Failure("prompts")>>
    /\ error' = Some("EOFError")
    /\ pc' = "failed"
    /\ UNCHANGED <<call, ret, meta, genLocals, files>>

\* lines 394-397: the confirmation; the record is returned or the loop goes on
CollectConfirm ==
    /\ pc = "confirm"
    /\ \E answer \in CollectAnswers :
           /\ calls' = Append(calls, Response("confirm", answer))
           /\ pc' = IF Affirmative(answer) THEN "done" ELSE "prompts"
           /\ ret' = IF Affirmative(answer) THEN heap[meta] ELSE ret
    /\ UNCHANGED <<call, meta, heap, genLocals, files, error>>

\* line 394: input() raises EOFError at the confirmation
CollectConfirmRaise ==
    /\ pc = "confirm"
    /\ calls' = Append(calls, Failure("confirm"))
    /\ error' = Some("EOFError")
    /\ pc' = "failed"
    /\ UNCHANGED <<call, ret, meta, heap, genLocals, files>>

CollectNext ==
    \/ CollectCopy
    \/ CollectPrompts
    \/ CollectPromptsRaise
    \/ CollectConfirm
    \/ CollectConfirmRaise

SpecCollect == CollectInit /\ [][CollectNext]_vars

\* the same letter, in either case
SameLetter(a, b) ==
    \/ a = b
    \/ \E pair \in {<<"J", "j">>, <<"A", "a">>, <<"Y", "y">>, <<"E", "e">>, <<"S", "s">>} :
           {a, b} = {pair[1], pair[2]}

\* the answer, trimmed and without regard to case, is empty or one of
\* j, ja, y, yes
IsYes(answer) ==
    \E word \in {<<>>, <<"j">>, <<"j", "a">>, <<"y">>, <<"y", "e", "s">>} :
        /\ Len(TrimmedLine(answer)) = Len(word)
        /\ \A i \in 1..Len(word) : SameLetter(TrimmedLine(answer)[i], word[i])

\* the positions in the log of the completed rounds and of the answers
RoundsDone == EventsOf("prompts", "return")
AnswersGiven == EventsOf("confirm", "return")

\* the entries typed for a list: the lines before the first blank one, trimmed
ListTyped(typed) ==
    LET blank == {i \in 1..Len(typed) : TrimmedLine(typed[i]) = <<>>}
        n == IF blank = {} THEN Len(typed) ELSE SetMin(blank) - 1
    IN  [i \in 1..n |-> TrimmedLine(typed[i])]

\* the value field f has after the round completed at log position i: what
\* was typed, or the default offered when nothing was typed
Entered(i, f) ==
    LET typed == calls[i].arg[f]
        offered == calls[i - 1].arg[f]
    IN  IF f \in ListFields
        THEN IF ListTyped(typed) # <<>> THEN ListTyped(typed) ELSE offered
        ELSE IF TrimmedLine(typed) # <<>> THEN TrimmedLine(typed) ELSE offered

\* the record r holds the values of the round completed at log position i
HoldsRound(r, i) ==
    /\ r.titel = Entered(i, "titel")
    /\ \A f \in OptionalFields : r[f] = <<Entered(i, f)>>
    /\ \A f \in ListFields : r[f] = Entered(i, f)

\* C15: collect_meeting_metadata returns only at a confirmation whose answer
\* (trimmed, without regard to case) is empty or one of j, ja, y, yes; any
\* other answer starts another full round of prompts in which the values of
\* the previous round are offered as defaults; so it returns exactly when
\* the first affirmative answer is given, and the returned record holds the
\* values of that last round.
C15_ReturnsAtFirstYes ==
    /\ pc = "done" <=> /\ calls # <<>>
                       /\ Len(calls) \in AnswersGiven
                       /\ IsYes(calls[Len(calls)].arg)
    /\ \A i \in AnswersGiven : i - 1 \in RoundsDone
    /\ \A i \in AnswersGiven : i < Len(calls) =>
           /\ ~IsYes(calls[i].arg)
           /\ calls[i + 1] = Request("prompts", calls[i + 1].arg)
           /\ \A f \in DOMAIN BlankInput : calls[i + 1].arg[f] = Entered(i - 1, f)
    /\ pc = "done" => HoldsRound(ret, Len(calls) - 1)

C15_Witness ==
    /\ pc = "done"
    /\ Cardinality(RoundsDone) = 2
    /\ calls[3].arg = <<"y", "e">>
    /\ calls[6].arg = <<"Y", "E", "S">>
    /\ TrimmedLine(calls[5].arg.titel) = <<>>
    /\ ret.titel = <<"X">>
    /\ ret.titel # call.base_meta.titel
    /\ ret.agenda = << <<"k">> >>

====
